---- MODULE Spec2Model ----
(***************************************************************************)
(* WiFiServer (libraries/WiFi/src/WiFiServer.cpp): a listening TCP socket  *)
(* over lwIP with a queue of accepted-but-unclaimed client contexts.       *)
(*                                                                         *)
(* Every call is modelled statement by statement: the stack's accept       *)
(* callback, its teardown of a connection and its periodic timeout routine *)
(* run in an interrupt-like context between two statements of the          *)
(* application, unless an LWIPMutex is alive.                              *)
(*                                                                         *)
(* Spec    : all calls of the listener and all events of the stack.        *)
(* The other specifications are parts of Spec, each with the calls and     *)
(* events its properties are about:                                        *)
(* SpecCalls: the begin overloads, close, stop, accept, available and      *)
(*           hasMaxPendingClients with the stack's connection events.      *)
(* SpecSeq : begin(port), close() and accept() with the stack's events     *)
(*           arriving only between two calls (nothing is interleaved).     *)
(* SpecData: a listener opened with the default backlog, polled with       *)
(*           hasClientData and accept while data arrives on the queue.     *)
(* SpecND  : a listener whose no-delay policy is changed between accepts.  *)
(* SpecIL  : begin(port, backlog), close() and accept() with the stack's   *)
(*           events and its periodic timeout routine.                      *)
(* SpecLive: SpecIL with an application that keeps polling accept().       *)
(***************************************************************************)
EXTENDS Integers, Sequences, FiniteSets, TLC

\* ---------------------------------------------------------------- bounds
\* Number of connection contexts the accept callback may create in a run.
MaxCtx == 3
\* Number of tcp_pcb slots the stack can hand out to this server.
MaxPcb == 2

\* ------------------------------------------------------------- constants
NULL == 0
MAX_PENDING_CLIENTS_PER_PORT == 5
\* lwIP enum tcp_state values used by status()
CLOSED == 0
LISTEN == 1
\* first port of the stack's ephemeral range (tcp_new_port)
TCP_LOCAL_PORT_RANGE_START == 49152

\* the builds of the listener: lwipopts.h sets TCP_LISTEN_BACKLOG or not
Builds == BOOLEAN

\* inputs; begin(port) and begin() add the backlog MAX_PENDING_CLIENTS_PER_PORT
Ports == {0, 80}
Backlogs == {0, 2}
DataSizes == {3, 5}
\* what the stack answers during begin(): success, or a failure of
\* tcp_new / tcp_bind / tcp_listen_with_backlog
Outcomes == {"ok", "alloc", "bind", "listen"}
\* value read through a null listening handle (undefined behaviour)
Junk == {0, MAX_PENDING_CLIENTS_PER_PORT}

PcbIds == 1..MaxPcb
CtxIds == 1..MaxCtx

VARIABLES
    \* WiFiServer members
    _port, _listen_pcb, _noDelay, _unclaimed,
    \* WiFiClient's process-wide default
    defaultNoDelay,
    \* the stack: listening/temporary pcbs and accepted connection pcbs
    tcp_pcbs, conn_pcbs,
    \* ClientContext objects, indexed by creation order
    ctx,
    \* history: contexts handed to the application by accept(), calls of
    \* tcp_close on a handle that is not live
    returned, badClose,
    \* execution: application program counter, callback program counter,
    \* LWIPMutex depth, timeout routine running, locals of the running calls
    pc, cpc, lock, inTimer, loc,
    \* the build option of lwipopts.h (#if TCP_LISTEN_BACKLOG)
    TCP_LISTEN_BACKLOG

srv == <<_port, _listen_pcb, _noDelay, _unclaimed>>
stk == <<tcp_pcbs, conn_pcbs>>
il == <<pc, cpc, lock, inTimer, loc>>
\* what no call of the listener changes
cfg == <<defaultNoDelay, TCP_LISTEN_BACKLOG>>
vars == <<_port, _listen_pcb, _noDelay, _unclaimed, defaultNoDelay, tcp_pcbs,
          conn_pcbs, ctx, returned, badClose, pc, cpc, lock, inTimer, loc,
          TCP_LISTEN_BACKLOG>>

\* ------------------------------------------------------- the stack (lwIP)
\* A fresh pcb as tcp_new() returns it.
NewPcb ==
    [state |-> CLOSED, local_port |-> 0, reuseaddr |-> FALSE, backlog |-> 0,
     accepts_pending |-> 0, accept |-> "none", callback_arg |-> "none"]

\* tcp_new(): the handle of a free slot, NULL when the pool is exhausted.
tcp_new(tab) ==
    IF PcbIds \ DOMAIN tab = {} THEN NULL
    ELSE CHOOSE h \in PcbIds \ DOMAIN tab : \A g \in PcbIds \ DOMAIN tab : h <= g

\* the pcb table with handle h allocated
tcp_alloc(tab, h) == [g \in DOMAIN tab \cup {h} |-> IF g = h THEN NewPcb ELSE tab[g]]

\* tcp_bind(pcb, addr, port): port 0 asks for an ephemeral port.
tcp_bind(tab, h, port) ==
    [tab EXCEPT ![h].local_port =
        IF port = 0 THEN TCP_LOCAL_PORT_RANGE_START ELSE port]

\* the pcb table with handle h released
tcp_free(tab, h) == [g \in DOMAIN tab \ {h} |-> tab[g]]

\* tcp_listen_with_backlog(pcb, backlog): the bound pcb is freed and replaced
\* by a listening pcb that keeps its port and options; the backlog is
\* recorded in a build with TCP_LISTEN_BACKLOG.
tcp_listen_with_backlog(tab, h, backlog) ==
    LET lh == tcp_new(tcp_free(tab, h))
        t1 == tcp_alloc(tcp_free(tab, h), lh)
    IN [handle |-> lh,
        tab |-> [t1 EXCEPT ![lh] =
                    [tab[h] EXCEPT !.state = LISTEN,
                                   !.backlog = IF TCP_LISTEN_BACKLOG
                                               THEN backlog ELSE 0,
                                   !.accepts_pending = 0]]]

\* tcp_accept(pcb, cb); tcp_arg(pcb, arg)
tcp_accept(tab, h, cb) == [tab EXCEPT ![h].accept = cb]
tcp_arg(tab, h, arg) == [tab EXCEPT ![h].callback_arg = arg]

\* tcp_close on a listening pcb detaches the connections that refer to it
\* (tcp_listen_closed).
tcp_listen_closed(conns, h) ==
    [p \in DOMAIN conns |->
        IF conns[p].listener = h THEN [conns[p] EXCEPT !.listener = NULL]
        ELSE conns[p]]

\* tcp_backlog_delayed(pcb): count the connection against its listener.
tcp_backlog_delayed(tab, conns, p) ==
    IF ~TCP_LISTEN_BACKLOG \/ conns[p].backlogpend \/ conns[p].listener = NULL
    THEN [tab |-> tab, conns |-> conns]
    ELSE [tab |-> [tab EXCEPT ![conns[p].listener].accepts_pending = @ + 1],
          conns |-> [conns EXCEPT ![p].backlogpend = TRUE]]

\* tcp_backlog_accepted(pcb): release the connection's backlog slot.
tcp_backlog_accepted(tab, conns, p) ==
    IF ~TCP_LISTEN_BACKLOG \/ ~conns[p].backlogpend \/ conns[p].listener = NULL
    THEN [tab |-> tab, conns |-> conns]
    ELSE [tab |-> [tab EXCEPT ![conns[p].listener].accepts_pending = @ - 1],
          conns |-> [conns EXCEPT ![p].backlogpend = FALSE]]

\* --------------------------------------------------- the pending queue
RECURSIVE slist_last(_, _)
\* the loop of slist_append_tail: the element whose next() is null
slist_last(cx, c) == IF cx[c].next = NULL THEN c ELSE slist_last(cx, cx[c].next)

\* Mutant of slist_append_tail: the item is linked in front of the head.
slist_prepend(cx, head, item) ==
    [head |-> item, ctx |-> [cx EXCEPT ![item].next = head]]

\* slist_append_tail(head, item): the new head and the contexts after the
\* write of last->next
slist_append_tail(cx, head, item) ==
    IF head = NULL THEN [head |-> item, ctx |-> cx]
    ELSE [head |-> head,
          ctx |-> [cx EXCEPT ![slist_last(cx, head)].next = item]]

RECURSIVE Walk(_, _)
\* the contexts reachable from c through next(), in order
Walk(cx, c) == IF c = NULL THEN <<>> ELSE <<c>> \o Walk(cx, cx[c].next)

\* the pending queue as a sequence, head first
Queue == Walk(ctx, _unclaimed)

SeqSet(s) == {s[i] : i \in 1..Len(s)}

\* the buffered-byte count of the first element of q that has any among
\* the contexts cx, else 0
FirstDataIn(cx, q) ==
    LET ready == {i \in 1..Len(q) : cx[q[i]].size # 0}
    IN IF ready = {} THEN 0
       ELSE cx[q[CHOOSE i \in ready : \A k \in ready : i <= k]].size

\* --------------------------------------------------------------- queries
\* Mutant of getNoDelay: the listener's own setting is ignored.
getNoDelay_default == defaultNoDelay

\* WiFiServer::getNoDelay
getNoDelay ==
    CASE _noDelay = "_ndFalse" -> FALSE
      [] _noDelay = "_ndTrue" -> TRUE
      [] OTHER -> defaultNoDelay

\* WiFiServer::hasClient
hasClient == IF _unclaimed # NULL THEN TRUE ELSE FALSE

\* WiFiServer::hasMaxPendingClients, when the call returns; junk is what
\* the read through a null _listen_pcb yields when it does not fault.
hasMaxPendingClients(junk) ==
    IF TCP_LISTEN_BACKLOG
    THEN (IF _listen_pcb = NULL THEN junk
          ELSE tcp_pcbs[_listen_pcb].accepts_pending) >= MAX_PENDING_CLIENTS_PER_PORT
    ELSE FALSE

\* WiFiServer::status
status == IF _listen_pcb = NULL THEN CLOSED ELSE tcp_pcbs[_listen_pcb].state

\* WiFiServer::port
port == _port

\* the locals of the running calls, when no call is running. seen is
\* history, read by no statement: the values the first queued count with
\* data has had since the running hasClientData() was called.
NoLocals ==
    [p |-> 0, backlog |-> 0, outcome |-> "ok", pcb |-> NULL, listen_pcb |-> NULL,
     path |-> "none", caller |-> "idle", result |-> NULL, next |-> NULL,
     client |-> NULL, answer |-> FALSE, s |-> 0, seen |-> {}]

\* ------------------------------------------------------------------ Init
\* the server after construction, whatever the process-wide default is,
\* in a build with or without TCP_LISTEN_BACKLOG
InitServer ==
    /\ TCP_LISTEN_BACKLOG \in Builds
    /\ _port \in Ports
    /\ _listen_pcb = NULL
    /\ _noDelay = "_ndDefault"
    /\ _unclaimed = NULL
    /\ tcp_pcbs = <<>>
    /\ conn_pcbs = <<>>
    /\ ctx = <<>>
    /\ returned = <<>>
    /\ badClose = FALSE
    /\ pc = "idle"
    /\ cpc = "idle"
    /\ lock = 0
    /\ inTimer = FALSE
    /\ loc = NoLocals

\* WiFiClient's process-wide default is whatever the program set before.
Init == InitServer /\ defaultNoDelay \in BOOLEAN

\* WiFiClient's default no-delay setting has not been changed.
InitOff == Init /\ defaultNoDelay = FALSE
\* ------------------------------------------- handlers, as state functions
\* tcp_close(pcb): releases a live handle; a handle that is not live is a
\* second release.
tcp_close(tab, conns, h) ==
    IF h \in DOMAIN tab
    THEN [tab |-> tcp_free(tab, h), conns |-> tcp_listen_closed(conns, h),
          bad |-> FALSE]
    ELSE [tab |-> tab, conns |-> conns, bad |-> TRUE]

\* Mutant of begin_release: the temporary pcb is not closed.
begin_leak(tab, conns, pcb) == tab

\* begin's failure paths after tcp_new: tcp_close(pcb)
begin_release(tab, conns, pcb) == tcp_close(tab, conns, pcb).tab

\* Mutant of begin_port: the requested port is kept.
begin_port_requested(tab, lp, p) == p

\* begin's _port = _listen_pcb->local_port
begin_port(tab, lp, p) == tab[lp].local_port

\* Mutant of accept_test: a head whose peer has gone does not count.
accept_test_live(cx, head) == head # NULL /\ cx[head].pcb # NULL

\* the test of WiFiServer::accept: if (_unclaimed)
accept_test(cx, head) == head # NULL

\* the pop of WiFiServer::accept: the head's successor becomes the head
accept_pop(cx, head) == cx[head].next

\* the listening pcbs on which the stack would call back into this server
Listening ==
    {h \in DOMAIN tcp_pcbs : /\ tcp_pcbs[h].state = LISTEN
                             /\ tcp_pcbs[h].accept = "_s_accept"
                             /\ tcp_pcbs[h].callback_arg = "this"}

\* new ClientContext(apcb, &_s_discard, this)
NewClientContext(apcb) == [next |-> NULL, pcb |-> apcb, size |-> 0, nodelay |-> FALSE]

\* Mutant of _discard: the context is unlinked from the pending queue.
_discard_remove(cx, head, client) ==
    IF head = client THEN [head |-> cx[client].next, ctx |-> cx]
    ELSE [head |-> head,
          ctx |-> [c \in DOMAIN cx |->
                     IF cx[c].next = client
                     THEN [cx[c] EXCEPT !.next = cx[client].next]
                     ELSE cx[c]]]

\* WiFiServer::_discard(client): the queue head and the contexts after it
_discard(cx, head, client) == [head |-> head, ctx |-> cx]

\* --------------------------------------------- execution, by statements
\* pc is the statement the application executes next, cpc the statement of
\* a running accept callback.

\* The application executes only while no interrupt routine is running.
AppRun == cpc = "idle" /\ ~inTimer

\* The stack's input processing and its timeout routine are kept out while
\* an LWIPMutex is alive.
StackRun == cpc = "idle" /\ ~inTimer /\ lock = 0

\* The program stopped on an access through a null pointer.
Faulted == pc \in {"fault", "h_fault"}

\* LWIPMutex m; (constructor) and the end of its scope (destructor)
LWIPMutex_ctor(n) == n + 1
LWIPMutex_dtor(n) == n - 1

\* where close() returns to
CloseReturn == IF loc.caller = "begin" THEN "b_zero" ELSE "idle"

\* Mutant of B_Call: begin does not close the previous listener.
B_Call_noclose(p, backlog, outcome) ==
    /\ AppRun /\ pc = "idle"
    /\ loc' = [loc EXCEPT !.p = p, !.backlog = backlog, !.outcome = outcome,
                          !.caller = "begin", !.pcb = NULL, !.listen_pcb = NULL]
    /\ pc' = "b_zero"
    /\ UNCHANGED <<srv, cfg, stk, ctx, returned, badClose, cpc, lock,
                   inTimer>>

\* Mutant of B_Call: begin creates its lock object before calling close().
B_Call_locked(p, backlog, outcome) ==
    /\ AppRun /\ pc = "idle"
    /\ loc' = [loc EXCEPT !.p = p, !.backlog = backlog, !.outcome = outcome,
                          !.caller = "begin", !.pcb = NULL, !.listen_pcb = NULL]
    /\ lock' = LWIPMutex_ctor(lock)
    /\ pc' = "cl_test"
    /\ UNCHANGED <<srv, cfg, stk, ctx, returned, badClose,
                   cpc, inTimer>>

\* call of begin(port, backlog): line 53, close()
B_Call(p, backlog, outcome) ==
    /\ AppRun /\ pc = "idle"
    /\ loc' = [loc EXCEPT !.p = p, !.backlog = backlog, !.outcome = outcome,
                          !.caller = "begin", !.pcb = NULL, !.listen_pcb = NULL]
    /\ pc' = "cl_test"
    /\ UNCHANGED <<srv, cfg, stk, ctx, returned, badClose,
                   cpc, lock, inTimer>>

\* call of begin(port): line 49, begin(port, MAX_PENDING_CLIENTS_PER_PORT)
B_CallPort(p, outcome) == B_Call(p, MAX_PENDING_CLIENTS_PER_PORT, outcome)

\* call of begin(): line 45, begin(_port)
B_CallDefault(outcome) == B_CallPort(_port, outcome)

\* call of close()
Cl_Call ==
    /\ AppRun /\ pc = "idle"
    /\ loc' = [loc EXCEPT !.caller = "idle"]
    /\ pc' = "cl_test"
    /\ UNCHANGED <<srv, cfg, stk, ctx, returned, badClose,
                   cpc, lock, inTimer>>

\* call of stop(): line 171, close()
St_Call == Cl_Call

\* Mutant of Cl_Test: the test of _listen_pcb is missing.
Cl_Test_unchecked ==
    /\ AppRun /\ pc = "cl_test"
    /\ pc' = "cl_lock"
    /\ UNCHANGED <<srv, cfg, stk, ctx, returned, badClose, cpc, lock,
                   inTimer, loc>>

\* line 162: if (!_listen_pcb) return;
Cl_Test ==
    /\ AppRun /\ pc = "cl_test"
    /\ IF _listen_pcb = NULL
       THEN /\ pc' = CloseReturn
            /\ loc' = IF loc.caller = "idle" THEN NoLocals ELSE loc
       ELSE /\ pc' = "cl_lock"
            /\ loc' = loc
    /\ UNCHANGED <<srv, cfg, stk, ctx, returned, badClose,
                   cpc, lock, inTimer>>

\* line 165: LWIPMutex m;
Cl_Lock ==
    /\ AppRun /\ pc = "cl_lock"
    /\ lock' = LWIPMutex_ctor(lock)
    /\ pc' = "cl_close"
    /\ UNCHANGED <<srv, cfg, stk, ctx, returned, badClose,
                   cpc, inTimer, loc>>

\* line 166: tcp_close(_listen_pcb);
Cl_Close ==
    /\ AppRun /\ pc = "cl_close"
    /\ LET r == tcp_close(tcp_pcbs, conn_pcbs, _listen_pcb)
       IN /\ tcp_pcbs' = r.tab
          /\ conn_pcbs' = r.conns
          /\ badClose' = (badClose \/ r.bad)
    /\ pc' = "cl_null"
    /\ UNCHANGED <<srv, cfg, ctx, returned, cpc, lock,
                   inTimer, loc>>

\* Mutant of Cl_Null: closing the listener also drops the pending queue.
Cl_Null_flush ==
    /\ AppRun /\ pc = "cl_null"
    /\ _listen_pcb' = NULL
    /\ _unclaimed' = NULL
    /\ pc' = "cl_unlock"
    /\ UNCHANGED <<_port, _noDelay, cfg, stk, ctx, returned, badClose, cpc,
                   lock, inTimer, loc>>

\* line 167: _listen_pcb = nullptr;
Cl_Null ==
    /\ AppRun /\ pc = "cl_null"
    /\ _listen_pcb' = NULL
    /\ pc' = "cl_unlock"
    /\ UNCHANGED <<_port, _noDelay, _unclaimed, cfg, stk, ctx,
                   returned, badClose, cpc, lock, inTimer, loc>>

\* line 168: end of close(), m is destroyed
Cl_Unlock ==
    /\ AppRun /\ pc = "cl_unlock"
    /\ lock' = LWIPMutex_dtor(lock)
    /\ pc' = CloseReturn
    /\ loc' = IF loc.caller = "idle" THEN NoLocals ELSE loc
    /\ UNCHANGED <<srv, cfg, stk, ctx, returned, badClose,
                   cpc, inTimer>>

\* lines 54-56: if (!backlog) return;
B_Zero ==
    /\ AppRun /\ pc = "b_zero"
    /\ IF loc.backlog = 0
       THEN pc' = "idle" /\ loc' = NoLocals
       ELSE pc' = "b_port" /\ loc' = loc
    /\ UNCHANGED <<srv, cfg, stk, ctx, returned, badClose,
                   cpc, lock, inTimer>>

\* line 57: _port = port;
B_Port ==
    /\ AppRun /\ pc = "b_port"
    /\ _port' = loc.p
    /\ pc' = "b_lock"
    /\ UNCHANGED <<_listen_pcb, _noDelay, _unclaimed, cfg, stk, ctx,
                   returned, badClose, cpc, lock, inTimer, loc>>

\* line 59: LWIPMutex m;
B_Lock ==
    /\ AppRun /\ pc = "b_lock"
    /\ lock' = LWIPMutex_ctor(lock)
    /\ pc' = "b_new"
    /\ UNCHANGED <<srv, cfg, stk, ctx, returned, badClose,
                   cpc, inTimer, loc>>

\* lines 61-66: pcb = tcp_new(); if (!pcb) return; so_options |= SOF_REUSEADDR
B_New ==
    /\ AppRun /\ pc = "b_new"
    /\ LET pcb == IF loc.outcome = "alloc" THEN NULL ELSE tcp_new(tcp_pcbs)
       IN IF pcb = NULL
          THEN /\ loc' = [loc EXCEPT !.path = "begin_alloc"]
               /\ pc' = "b_unlock"
               /\ UNCHANGED tcp_pcbs
          ELSE /\ tcp_pcbs' = [tcp_alloc(tcp_pcbs, pcb) EXCEPT ![pcb].reuseaddr = TRUE]
               /\ loc' = [loc EXCEPT !.pcb = pcb]
               /\ pc' = "b_bind"
    /\ UNCHANGED <<srv, cfg, conn_pcbs, ctx, returned, badClose, cpc, lock, inTimer>>

\* lines 69-72: tcp_bind; on failure tcp_close(pcb) and return
B_Bind ==
    /\ AppRun /\ pc = "b_bind"
    /\ IF loc.outcome = "bind"
       THEN /\ tcp_pcbs' = begin_release(tcp_pcbs, conn_pcbs, loc.pcb)
            /\ loc' = [loc EXCEPT !.path = "begin_bind", !.pcb = NULL]
            /\ pc' = "b_unlock"
       ELSE /\ tcp_pcbs' = tcp_bind(tcp_pcbs, loc.pcb, _port)
            /\ loc' = loc
            /\ pc' = "b_listen"
    /\ UNCHANGED <<srv, cfg, conn_pcbs, ctx, returned, badClose, cpc, lock, inTimer>>

\* lines 74-79: tcp_listen_with_backlog; on failure tcp_close(pcb) and return
B_Listen ==
    /\ AppRun /\ pc = "b_listen"
    /\ IF loc.outcome = "listen"
       THEN /\ tcp_pcbs' = begin_release(tcp_pcbs, conn_pcbs, loc.pcb)
            /\ loc' = [loc EXCEPT !.path = "begin_listen", !.pcb = NULL]
            /\ pc' = "b_unlock"
       ELSE LET l == tcp_listen_with_backlog(tcp_pcbs, loc.pcb, loc.backlog)
            IN /\ tcp_pcbs' = l.tab
               /\ loc' = [loc EXCEPT !.listen_pcb = l.handle, !.pcb = NULL]
               /\ pc' = "b_assign"
    /\ UNCHANGED <<srv, cfg, conn_pcbs, ctx, returned, badClose, cpc, lock, inTimer>>

\* lines 80-81: _listen_pcb = listen_pcb; _port = _listen_pcb->local_port;
B_Assign ==
    /\ AppRun /\ pc = "b_assign"
    /\ _listen_pcb' = loc.listen_pcb
    /\ _port' = begin_port(tcp_pcbs, loc.listen_pcb, loc.p)
    /\ pc' = "b_register"
    /\ UNCHANGED <<_noDelay, _unclaimed, cfg, stk, ctx, returned,
                   badClose, cpc, lock, inTimer, loc>>

\* Mutant of B_Register: the owner argument is not registered.
B_Register_noarg ==
    /\ AppRun /\ pc = "b_register"
    /\ tcp_pcbs' = tcp_accept(tcp_pcbs, loc.listen_pcb, "_s_accept")
    /\ loc' = [loc EXCEPT !.path = "begin_ok", !.listen_pcb = NULL]
    /\ pc' = "b_unlock"
    /\ UNCHANGED <<srv, cfg, conn_pcbs, ctx, returned, badClose, cpc, lock, inTimer>>

\* lines 82-83: tcp_accept(listen_pcb, &_s_accept); tcp_arg(listen_pcb, this);
B_Register ==
    /\ AppRun /\ pc = "b_register"
    /\ tcp_pcbs' = tcp_arg(tcp_accept(tcp_pcbs, loc.listen_pcb, "_s_accept"),
                           loc.listen_pcb, "this")
    /\ loc' = [loc EXCEPT !.path = "begin_ok", !.listen_pcb = NULL]
    /\ pc' = "b_unlock"
    /\ UNCHANGED <<srv, cfg, conn_pcbs, ctx, returned, badClose, cpc, lock, inTimer>>

\* the return of begin after line 59: m is destroyed
B_Unlock ==
    /\ AppRun /\ pc = "b_unlock"
    /\ lock' = LWIPMutex_dtor(lock)
    /\ loc' = NoLocals
    /\ pc' = "idle"
    /\ UNCHANGED <<srv, cfg, stk, ctx, returned, badClose,
                   cpc, inTimer>>

\* call of accept(), line 132: if (_unclaimed) { WiFiClient result(_unclaimed);
A_Call ==
    /\ AppRun /\ pc = "idle"
    /\ IF accept_test(ctx, _unclaimed)
       THEN /\ loc' = [loc EXCEPT !.result = _unclaimed]
            /\ pc' = "a_getpcb"
       ELSE /\ loc' = loc
            /\ pc' = "a_empty"
    /\ UNCHANGED <<srv, cfg, stk, ctx, returned, badClose, cpc, lock,
                   inTimer>>

\* call of available(status): line 128, return accept();
Av_Call == A_Call

\* line 147: return WiFiClient();
A_Empty ==
    /\ AppRun /\ pc = "a_empty"
    /\ pc' = "idle"
    /\ UNCHANGED <<srv, cfg, stk, ctx, returned, badClose, cpc, lock,
                   inTimer, loc>>

\* line 136: if (_unclaimed->getPCB()) {
A_GetPcb ==
    /\ AppRun /\ pc = "a_getpcb"
    /\ pc' = IF ctx[_unclaimed].pcb # NULL THEN "a_lock" ELSE "a_next"
    /\ UNCHANGED <<srv, cfg, stk, ctx, returned, badClose,
                   cpc, lock, inTimer, loc>>

\* Mutant of A_Lock: accept() goes on without creating the lock object.
A_NoLock ==
    /\ AppRun /\ pc = "a_lock"
    /\ pc' = "a_backlog"
    /\ UNCHANGED <<srv, cfg, stk, ctx, returned, badClose,
                   cpc, lock, inTimer, loc>>

\* line 137: LWIPMutex m;
A_Lock ==
    /\ AppRun /\ pc = "a_lock"
    /\ lock' = LWIPMutex_ctor(lock)
    /\ pc' = "a_backlog"
    /\ UNCHANGED <<srv, cfg, stk, ctx, returned, badClose,
                   cpc, inTimer, loc>>

\* line 139: tcp_backlog_accepted(_unclaimed->getPCB()); the handle is read
\* again here. If it became null since line 136, a stack built with
\* TCP_LISTEN_BACKLOG dereferences a null pcb: the call either changes
\* nothing or the program faults. Without the option the call is empty.
A_Backlog ==
    /\ AppRun /\ pc = "a_backlog"
    /\ \/ /\ ctx[_unclaimed].pcb # NULL
          /\ LET r == tcp_backlog_accepted(tcp_pcbs, conn_pcbs, ctx[_unclaimed].pcb)
             IN tcp_pcbs' = r.tab /\ conn_pcbs' = r.conns
          /\ pc' = "a_unlock"
       \/ /\ ctx[_unclaimed].pcb = NULL
          /\ UNCHANGED stk
          /\ pc' \in (IF TCP_LISTEN_BACKLOG THEN {"a_unlock", "fault"}
                                             ELSE {"a_unlock"})
    /\ UNCHANGED <<srv, cfg, ctx, returned, badClose, cpc,
                   lock, inTimer, loc>>

\* line 140: end of the block, m is destroyed
A_Unlock ==
    /\ AppRun /\ pc = "a_unlock"
    /\ lock' = LWIPMutex_dtor(lock)
    /\ pc' = "a_next"
    /\ UNCHANGED <<srv, cfg, stk, ctx, returned, badClose,
                   cpc, inTimer, loc>>

\* line 142, right-hand side: the read of _unclaimed->next()
A_Next ==
    /\ AppRun /\ pc = "a_next"
    /\ loc' = [loc EXCEPT !.next = accept_pop(ctx, _unclaimed)]
    /\ pc' = "a_store"
    /\ UNCHANGED <<srv, cfg, stk, ctx, returned, badClose,
                   cpc, lock, inTimer>>

\* line 142, left-hand side: the write of _unclaimed
A_Store ==
    /\ AppRun /\ pc = "a_store"
    /\ _unclaimed' = loc.next
    /\ pc' = "a_ret"
    /\ UNCHANGED <<_port, _listen_pcb, _noDelay, cfg, stk, ctx,
                   returned, badClose, cpc, lock, inTimer, loc>>

\* lines 143-145: result.setNoDelay(getNoDelay()); return result;
A_Return ==
    /\ AppRun /\ pc = "a_ret"
    /\ ctx' = [ctx EXCEPT ![loc.result].nodelay = getNoDelay]
    /\ returned' = Append(returned, loc.result)
    /\ loc' = [loc EXCEPT !.result = NULL, !.next = NULL]
    /\ pc' = "idle"
    /\ UNCHANGED <<srv, cfg, stk, badClose, cpc, lock,
                   inTimer>>

\* The stack calls _s_accept for listener h, line 193:
\* new ClientContext(apcb, &_s_discard, this)
C_Call(h) ==
    /\ StackRun
    /\ ~Faulted
    /\ Len(ctx) < MaxCtx
    /\ h \in Listening
    /\ conn_pcbs' = Append(conn_pcbs, [listener |-> h, backlogpend |-> FALSE])
    /\ ctx' = Append(ctx, NewClientContext(Len(conn_pcbs) + 1))
    /\ loc' = [loc EXCEPT !.client = Len(ctx) + 1]
    /\ cpc' = "c_lock"
    /\ UNCHANGED <<srv, cfg, tcp_pcbs, returned, badClose, pc,
                   lock, inTimer>>

\* line 200: LWIPMutex m;
C_Lock ==
    /\ ~inTimer /\ cpc = "c_lock"
    /\ lock' = LWIPMutex_ctor(lock)
    /\ cpc' = "c_delay"
    /\ UNCHANGED <<srv, cfg, stk, ctx, returned, badClose, pc,
                   inTimer, loc>>

\* Mutant of C_Delay: a connection is refused once the listener's pending
\* count has reached its backlog.
C_Delay_refuse ==
    /\ ~inTimer /\ cpc = "c_delay"
    /\ LET apcb == ctx[loc.client].pcb
           h == conn_pcbs[apcb].listener
           r == tcp_backlog_delayed(tcp_pcbs, conn_pcbs, apcb)
       IN IF tcp_pcbs[h].accepts_pending >= tcp_pcbs[h].backlog
          THEN cpc' = "c_ret" /\ UNCHANGED stk
          ELSE cpc' = "c_append" /\ tcp_pcbs' = r.tab /\ conn_pcbs' = r.conns
    /\ UNCHANGED <<srv, cfg, ctx, returned, badClose, pc, lock, inTimer, loc>>

\* line 201: tcp_backlog_delayed(apcb);
C_Delay ==
    /\ ~inTimer /\ cpc = "c_delay"
    /\ LET r == tcp_backlog_delayed(tcp_pcbs, conn_pcbs, ctx[loc.client].pcb)
       IN tcp_pcbs' = r.tab /\ conn_pcbs' = r.conns
    /\ cpc' = "c_append"
    /\ UNCHANGED <<srv, cfg, ctx, returned, badClose, pc,
                   lock, inTimer, loc>>

\* line 203: _unclaimed = slist_append_tail(_unclaimed, client);
C_Append ==
    /\ ~inTimer /\ cpc = "c_append"
    /\ LET a == slist_append_tail(ctx, _unclaimed, loc.client)
       IN _unclaimed' = a.head /\ ctx' = a.ctx
    /\ cpc' = "c_ret"
    /\ UNCHANGED <<_port, _listen_pcb, _noDelay, cfg, stk, returned,
                   badClose, pc, lock, inTimer, loc>>

\* line 205: return ERR_OK; m is destroyed
C_Return ==
    /\ ~inTimer /\ cpc = "c_ret"
    /\ lock' = LWIPMutex_dtor(lock)
    /\ loc' = [loc EXCEPT !.client = NULL]
    /\ cpc' = "idle"
    /\ UNCHANGED <<srv, cfg, stk, ctx, returned, badClose,
                   pc, inTimer>>

\* The periodic timer interrupt enters sys_check_timeouts unless an
\* LWIPMutex is alive, and leaves it.
TimerEnter ==
    /\ ~inTimer /\ lock = 0
    /\ inTimer' = TRUE
    /\ UNCHANGED <<srv, cfg, stk, ctx, returned, badClose, pc,
                   cpc, lock, loc>>

TimerExit ==
    /\ inTimer
    /\ inTimer' = FALSE
    /\ UNCHANGED <<srv, cfg, stk, ctx, returned, badClose, pc,
                   cpc, lock, loc>>

\* inputs of the runs with one port
PortsIL == {80}
BacklogsIL == {0, 2}

InitIL == InitOff /\ _port \in PortsIL

\* WiFiServer::setNoDelay
SetNoDelay(nodelay) ==
    /\ AppRun /\ pc = "idle"
    /\ _noDelay' = IF nodelay THEN "_ndTrue" ELSE "_ndFalse"
    /\ UNCHANGED <<_port, _listen_pcb, _unclaimed, cfg, stk, ctx, returned,
                   badClose, il>>

\* call of hasMaxPendingClients(), lines 119-123. With TCP_LISTEN_BACKLOG
\* line 120 reads accepts_pending through _listen_pcb without a test: on a
\* null handle the read faults or yields whatever is stored at that address.
HasMaxPendingClients ==
    /\ AppRun /\ pc = "idle"
    /\ IF TCP_LISTEN_BACKLOG /\ _listen_pcb = NULL
       THEN \/ pc' = "h_fault" /\ loc' = loc
            \/ \E junk \in Junk :
                  /\ pc' = "h_ret"
                  /\ loc' = [loc EXCEPT !.answer = hasMaxPendingClients(junk)]
       ELSE /\ pc' = "h_ret"
            /\ loc' = [loc EXCEPT !.answer = hasMaxPendingClients(0)]
    /\ UNCHANGED <<srv, cfg, stk, ctx, returned, badClose, cpc, lock, inTimer>>

\* the return of hasMaxPendingClients()
H_Return ==
    /\ AppRun /\ pc = "h_ret"
    /\ pc' = "idle"
    /\ loc' = NoLocals
    /\ UNCHANGED <<srv, cfg, stk, ctx, returned, badClose, cpc, lock, inTimer>>

\* call of hasClientData(), line 106: ClientContext *next = _unclaimed;
\* The scan of lines 107-115 takes no lock: data and connections arrive
\* between any two of its statements.
HD_Call ==
    /\ AppRun /\ pc = "idle"
    /\ loc' = [loc EXCEPT !.next = _unclaimed,
                           !.seen = {FirstDataIn(ctx, Queue)}]
    /\ pc' = "hd_while"
    /\ UNCHANGED <<srv, cfg, stk, ctx, returned, badClose, cpc, lock,
                   inTimer>>

\* line 107: while (next) {    and, past the end, line 115: return 0;
HD_While ==
    /\ AppRun /\ pc = "hd_while"
    /\ IF loc.next # NULL
       THEN /\ pc' = "hd_size"
            /\ loc' = loc
       ELSE /\ pc' = "hd_ret"
            /\ loc' = [loc EXCEPT !.s = 0]
    /\ UNCHANGED <<srv, cfg, stk, ctx, returned, badClose, cpc, lock,
                   inTimer>>

\* Mutant of HD_Size: the scan stops at the element it reads, with or
\* without data.
HD_Size_stop ==
    /\ AppRun /\ pc = "hd_size"
    /\ loc' = [loc EXCEPT !.s = ctx[loc.next].size]
    /\ pc' = "hd_ret"
    /\ UNCHANGED <<srv, cfg, stk, ctx, returned, badClose, cpc, lock,
                   inTimer>>

\* lines 108-111: size_t s = next->getSize(); if (s) { return s; }
HD_Size ==
    /\ AppRun /\ pc = "hd_size"
    /\ loc' = [loc EXCEPT !.s = ctx[loc.next].size]
    /\ pc' = IF ctx[loc.next].size # 0 THEN "hd_ret" ELSE "hd_next"
    /\ UNCHANGED <<srv, cfg, stk, ctx, returned, badClose, cpc, lock,
                   inTimer>>

\* line 113: next = next->next();
HD_Next ==
    /\ AppRun /\ pc = "hd_next"
    /\ loc' = [loc EXCEPT !.next = ctx[loc.next].next]
    /\ pc' = "hd_while"
    /\ UNCHANGED <<srv, cfg, stk, ctx, returned, badClose, cpc, lock,
                   inTimer>>

\* the return of hasClientData() with the value s
HD_Return ==
    /\ AppRun /\ pc = "hd_ret"
    /\ pc' = "idle"
    /\ loc' = NoLocals
    /\ UNCHANGED <<srv, cfg, stk, ctx, returned, badClose, cpc, lock,
                   inTimer>>

\* the statements of hasClientData() after its call
HasClientDataStep == HD_While \/ HD_Size \/ HD_Next \/ HD_Return

\* the scan of hasClientData() is running and has not fixed its value
Scanning == pc \in {"hd_while", "hd_size", "hd_next"}

\* The stack buffers n received bytes in a queued context (ClientContext's
\* receive callback). During a scan of hasClientData() the history seen
\* takes the new first queued count with data.
Recv(c, n) ==
    /\ StackRun
    /\ c \in SeqSet(Queue)
    /\ ctx[c].pcb # NULL
    /\ ctx[c].size = 0
    /\ ctx' = [ctx EXCEPT ![c].size = n]
    /\ loc' = IF Scanning
              THEN [loc EXCEPT !.seen = @ \cup {FirstDataIn(ctx', Queue)}]
              ELSE loc
    /\ UNCHANGED <<srv, cfg, stk, returned, badClose, pc, cpc, lock, inTimer>>

\* The peer of a queued connection goes away: the stack purges the pcb
\* (releasing its backlog slot), the context's pcb becomes null and the
\* context notifies the server through its discard callback.
PeerClose(c) ==
    /\ StackRun
    /\ c \in SeqSet(Queue)
    /\ ctx[c].pcb # NULL
    /\ LET r == tcp_backlog_accepted(tcp_pcbs, conn_pcbs, ctx[c].pcb)
       IN /\ tcp_pcbs' = r.tab
          /\ conn_pcbs' = [r.conns EXCEPT ![ctx[c].pcb] =
                              [listener |-> NULL, backlogpend |-> FALSE]]
    /\ LET d == _discard([ctx EXCEPT ![c].pcb = NULL], _unclaimed, c)
       IN _unclaimed' = d.head /\ ctx' = d.ctx
    /\ UNCHANGED <<_port, _listen_pcb, _noDelay, cfg, returned, badClose, il>>

\* ------------------------------------------------------------------ Spec
\* the statements of close(), of begin(port, backlog) after its call of
\* close(), of accept() and of the accept callback
CloseStep == Cl_Test \/ Cl_Lock \/ Cl_Close \/ Cl_Null \/ Cl_Unlock

BeginStep ==
    \/ B_Zero \/ B_Port \/ B_Lock \/ B_New \/ B_Bind \/ B_Listen \/ B_Assign
    \/ B_Register \/ B_Unlock

AcceptStep ==
    \/ A_Empty \/ A_GetPcb \/ A_Lock \/ A_Backlog \/ A_Unlock \/ A_Next
    \/ A_Store \/ A_Return

CallbackStep == C_Lock \/ C_Delay \/ C_Append \/ C_Return

\* The calls that open, close and poll the listener (the begin overloads,
\* close, stop, accept, available, hasMaxPendingClients), statement by
\* statement, and the connections the stack delivers or tears down between
\* any two statements executed without the lock.
NextCalls ==
    \/ \E p \in Ports, b \in Backlogs, o \in Outcomes : B_Call(p, b, o)
    \/ \E p \in Ports, o \in Outcomes : B_CallPort(p, o)
    \/ \E o \in Outcomes : B_CallDefault(o)
    \/ Cl_Call \/ St_Call \/ CloseStep
    \/ BeginStep
    \/ A_Call \/ Av_Call \/ AcceptStep
    \/ HasMaxPendingClients \/ H_Return
    \/ \E h \in PcbIds : C_Call(h)
    \/ CallbackStep
    \/ \E c \in CtxIds : PeerClose(c)

\* Every call of the listener that runs statements and every event of
\* the stack: NextCalls, setNoDelay, hasClientData, the arrival of data
\* and the timeout routine.
Next ==
    \/ NextCalls
    \/ HD_Call \/ HasClientDataStep
    \/ \E nodelay \in BOOLEAN : SetNoDelay(nodelay)
    \/ \E c \in CtxIds, n \in DataSizes : Recv(c, n)
    \/ TimerEnter \/ TimerExit

Spec == Init /\ [][Next]_vars

\* ------------------------------------------------------------- SpecCalls
\* The runs of Spec without setNoDelay, data and the timeout routine, and
\* with WiFiClient's default left off.
SpecCalls == InitOff /\ [][NextCalls]_vars

\* --------------------------------------------------------------- SpecSeq
\* Calls that are not interleaved: the stack delivers a connection or
\* tears one down only between two calls of the application.
NextSeq ==
    \/ \E p \in PortsIL, o \in Outcomes : B_CallPort(p, o)
    \/ Cl_Call \/ CloseStep
    \/ BeginStep
    \/ A_Call \/ AcceptStep
    \/ pc = "idle" /\ \E h \in PcbIds : C_Call(h)
    \/ CallbackStep
    \/ pc = "idle" /\ \E c \in CtxIds : PeerClose(c)

SpecSeq == InitIL /\ [][NextSeq]_vars

\* -------------------------------------------------------------- SpecData
\* A listener opened with the default backlog and polled with
\* hasClientData() and accept(), with data arriving on the queued
\* connections between any two statements.
NextData ==
    \/ \E p \in PortsIL : B_CallPort(p, "ok")
    \/ CloseStep
    \/ BeginStep
    \/ A_Call \/ AcceptStep
    \/ HD_Call \/ HasClientDataStep
    \/ \E h \in PcbIds : C_Call(h)
    \/ CallbackStep
    \/ \E c \in CtxIds, n \in DataSizes : Recv(c, n)

SpecData == InitIL /\ [][NextData]_vars

\* ---------------------------------------------------------------- SpecND
\* A listener whose no-delay policy the application changes between
\* accepts, for either value of WiFiClient's process-wide default.
InitND == Init /\ _port \in PortsIL

NextND ==
    \/ \E p \in PortsIL : B_CallPort(p, "ok")
    \/ CloseStep
    \/ BeginStep
    \/ \E nodelay \in BOOLEAN : SetNoDelay(nodelay)
    \/ A_Call \/ AcceptStep
    \/ \E h \in PcbIds : C_Call(h)
    \/ CallbackStep

SpecND == InitND /\ [][NextND]_vars

\* ---------------------------------------------------------------- SpecIL
\* begin(port, backlog), close() and accept() with the accept callback, the
\* teardown of a connection and the timeout routine.
NextIL ==
    \/ \E p \in PortsIL, b \in BacklogsIL, o \in Outcomes : B_Call(p, b, o)
    \/ Cl_Call \/ CloseStep
    \/ BeginStep
    \/ A_Call \/ AcceptStep
    \/ \E h \in PcbIds : C_Call(h)
    \/ CallbackStep
    \/ \E c \in CtxIds : PeerClose(c)
    \/ TimerEnter \/ TimerExit

SpecIL == InitIL /\ [][NextIL]_vars

\* -------------------------------------------------------------- SpecLive
\* The runs of SpecIL in which the application keeps polling: a call of
\* accept() is made again and again while a connection is queued, a call in
\* progress executes its next statement whenever no interrupt routine is
\* running, and the interrupt routines run to their end.
AppProgress == CloseStep \/ BeginStep \/ AcceptStep

CallbackProgress == CallbackStep

Polling ==
    /\ SF_vars(A_Call)
    /\ SF_vars(AppProgress)
    /\ SF_vars(CallbackProgress)
    /\ WF_vars(TimerExit)

SpecLive == InitIL /\ [][NextIL]_vars /\ Polling

\* ================================================================ claims
\* the contexts in the order the accept callback created and enqueued them
Arrivals == [i \in 1..Len(ctx) |-> i]

\* the listening pcb of the server, when it has one
ListenPcb == tcp_pcbs[_listen_pcb]

\* the context a running accept() has popped and not returned yet, and the
\* context a running callback has created and not appended yet
InHand == IF pc = "a_ret" THEN <<loc.result>> ELSE <<>>
InArrival ==
    IF cpc \in {"c_lock", "c_delay", "c_append"} THEN <<loc.client>> ELSE <<>>

\* C1 (FIFO consumption): when callbacks and accept() calls are not
\* interleaved, the contexts returned by the successive non-empty accept()
\* calls, followed by the one being returned, those still queued and the
\* one being enqueued, are the contexts the callback created, in the order
\* it created them.
C1_Fifo == returned \o InHand \o Queue \o InArrival = Arrivals

\* C1 witness: two connections were claimed while a third is still queued.
C1_Witness == pc = "idle" /\ cpc = "idle" /\ Len(returned) >= 2 /\ Queue # <<>>

\* context c is in the pending queue / was handed to the application
Queued(c) == c \in SeqSet(Queue)
Handed(c) == c \in SeqSet(returned)

\* C2 (single ownership, as claimed): between calls every context the
\* callback created is either in the pending queue or was returned by
\* accept(), never both and never neither; no context is returned twice;
\* hasClient() is true exactly when a context is queued.
C2_Claim ==
    (pc = "idle" /\ cpc = "idle") =>
        /\ \A c \in 1..Len(ctx) : Queued(c) # Handed(c)
        /\ \A i, j \in 1..Len(returned) : returned[i] = returned[j] => i = j
        /\ hasClient = (\E c \in 1..Len(ctx) : ~Handed(c))

\* C3 (backlog cap report, as claimed): in a build with the backlog
\* option, hasMaxPendingClients() on an open listener answers true exactly
\* when the stack's pending-accept counter has reached the backlog passed
\* to begin.
C3_Claim ==
    [][(HasMaxPendingClients /\ TCP_LISTEN_BACKLOG /\ _listen_pcb # NULL) =>
          (loc'.answer <=> (ListenPcb.accepts_pending >= ListenPcb.backlog))]_vars

\* the listener that accepted the connection of the running callback
CallbackListener == conn_pcbs[ctx[loc.client].pcb].listener

\* C4 (acceptance is never refused): every run of the accept callback
\* creates one context, counts it against the listener's backlog (where
\* the build has one), appends it at the tail of the queue and returns
\* ERR_OK only then; nothing queued is removed or reordered, whatever the
\* pending count.
C4_NeverRefused ==
    /\ [][(\E h \in PcbIds : C_Call(h)) =>
            (Len(ctx') = Len(ctx) + 1 /\ Queue' = Queue)]_vars
    /\ [][C_Delay =>
            /\ tcp_pcbs'[CallbackListener].accepts_pending =
                  tcp_pcbs[CallbackListener].accepts_pending
                     + (IF TCP_LISTEN_BACKLOG THEN 1 ELSE 0)
            /\ cpc' = "c_append"]_vars
    /\ [][C_Append => Queue' = Append(Queue, loc.client)]_vars
    /\ [][(cpc # "idle" /\ cpc' = "idle") =>
            (C_Return /\ Queue # <<>> /\ Queue[Len(Queue)] = loc.client)]_vars

\* C4 witness: the callback is about to return after it appended a
\* connection although the pending count had already reached the backlog
\* capacity.
C4_Witness ==
    /\ cpc = "c_ret"
    /\ _listen_pcb # NULL
    /\ ListenPcb.backlog > 0
    /\ ListenPcb.accepts_pending > ListenPcb.backlog
    /\ Len(Queue) = ListenPcb.accepts_pending

\* the buffered-byte count of the first element of q that has any, else 0
FirstData(q) == FirstDataIn(ctx, q)

\* the queued contexts in front of the position of the scan of
\* hasClientData(): those it has gone past and, once its local next is past
\* the end, those queued since behind that end
Passed ==
    IF loc.next = NULL THEN SeqSet(Queue)
    ELSE {Queue[i] : i \in {k \in 1..Len(Queue) :
                               \A j \in 1..k : Queue[j] # loc.next}}

\* the statement at which hasClientData() fixes the value it returns:
\* return s at line 111 or return 0 at line 115
HD_Decide == (HD_While \/ HD_Size) /\ pc' = "hd_ret"

\* C5 as written (peek-ahead read-readiness): the value hasClientData()
\* returns is the buffered-byte count of the first queued context, head to
\* tail, whose count is non-zero, and 0 if no queued context has data, for
\* the queue as it is at some instant between the call and the return.
C5_Claim == [][HD_Decide => loc'.s \in loc.seen]_vars

\* C5, amended (peek-ahead read-readiness): hasClientData() returns the
\* count of the first context with data that its scan comes to, 0 if it
\* comes to none; that is the count of the first queued context with data
\* whenever no context in front of the scan's position holds data, and can
\* be another count only when data arrived, during the call, on a context
\* the scan had gone past or on one queued behind the end it had reached.
\* No statement of hasClientData() changes the queue, a context or the
\* contexts handed out, and accept() on a non-empty queue takes and returns
\* the head of the queue whatever hasClientData() reported.
C5_PeekAhead ==
    /\ [][HD_Decide => /\ loc'.s = FirstData(Walk(ctx, loc.next))
                       /\ (\A c \in Passed : ctx[c].size = 0)
                             => loc'.s = FirstData(Queue)]_vars
    /\ [][(HD_Call \/ HasClientDataStep)
             => UNCHANGED <<_unclaimed, ctx, returned>>]_vars
    /\ [][(A_Call /\ Queue # <<>>) => loc'.result = Head(Queue)]_vars
    /\ [][A_Return => returned' = Append(returned, loc.result)]_vars

\* C5 witness: hasClientData() is returning the count of the second queued
\* context, the context at the head of the queue, which the next accept()
\* takes, having no data.
C5_Witness ==
    /\ pc = "hd_ret"
    /\ Len(Queue) >= 2
    /\ ctx[Queue[1]].size = 0
    /\ loc.next = Queue[2]
    /\ loc.s = ctx[Queue[2]].size
    /\ loc.s # 0

\* the handles the stack holds for this server are exactly the listening
\* handle
HandlesOwned ==
    DOMAIN tcp_pcbs = (IF _listen_pcb = NULL THEN {} ELSE {_listen_pcb})

\* C6 (idempotent close): close()/stop() returns with status() == CLOSED;
\* on a closed listener it changes nothing; the stack's close runs on a
\* live listening handle only, once, and outside the lock scopes the stack
\* holds no handle but the listening one.
C6_IdempotentClose ==
    /\ [](~badClose)
    /\ [](lock = 0 => HandlesOwned)
    /\ [][(Cl_Test /\ _listen_pcb = NULL) =>
            UNCHANGED <<srv, stk, ctx, returned, badClose, lock>>]_vars
    /\ [][Cl_Close =>
            /\ _listen_pcb \in DOMAIN tcp_pcbs
            /\ DOMAIN tcp_pcbs' = DOMAIN tcp_pcbs \ {_listen_pcb}]_vars
    /\ [][((Cl_Test \/ Cl_Unlock) /\ pc' # "cl_lock") => status' = CLOSED]_vars

\* C6 witness: close() runs on a listener that was already closed after
\* having been open (a connection of it is still queued).
C6_Witness ==
    /\ pc = "cl_test" /\ loc.caller = "idle"
    /\ _listen_pcb = NULL
    /\ Queue # <<>>

\* C7 (zero backlog, as claimed): when begin(port, 0) returns status() is
\* CLOSED and hasClient() is false.
C7_Claim ==
    [][(B_Zero /\ loc.backlog = 0) =>
          (status' = CLOSED /\ hasClient' = FALSE)]_vars

\* C7 (amended): when begin(port, 0) returns status() is CLOSED, and the
\* call has left the pending queue alone: hasClient() is true exactly when
\* a connection is queued.
C7_ZeroBacklog ==
    /\ [][(B_Zero /\ loc.backlog = 0) =>
            (pc' = "idle" /\ status' = CLOSED /\ hasClient' = (Queue # <<>>))]_vars
    /\ [][(loc.backlog = 0 /\ loc.caller = "begin"
             /\ (Cl_Test \/ Cl_Lock \/ Cl_Close \/ Cl_Null \/ Cl_Unlock \/ B_Zero)) =>
            UNCHANGED <<_unclaimed, ctx, returned>>]_vars

\* C7 witness: begin(port, 0) is at its return, the listener that was open
\* is closed and an unclaimed connection is queued.
C7_Witness ==
    /\ pc = "b_zero" /\ loc.backlog = 0
    /\ status = CLOSED
    /\ hasClient
    /\ \E c \in SeqSet(Queue) : ctx[c].pcb # NULL

\* C8 (silent failure to closed state): when a begin that failed at
\* tcp_new, tcp_bind or tcp_listen_with_backlog returns, the listener is
\* closed and the stack holds no handle of this server.
C8_FailClosed ==
    (pc = "b_unlock" /\ loc.path \in {"begin_alloc", "begin_bind", "begin_listen"}) =>
        (status = CLOSED /\ _listen_pcb = NULL /\ DOMAIN tcp_pcbs = {})

\* C8 witness: begin failed at listen on a server that was listening
\* before (a connection of the old listener is still queued).
C8_Witness == pc = "b_unlock" /\ loc.path = "begin_listen" /\ Queue # <<>>

\* the statements the claim names: begin's create/bind/listen/register,
\* close's tcp_close, accept's tcp_backlog_accepted, _accept's
\* tcp_backlog_delayed
ProtectedPc == {"b_new", "b_bind", "b_listen", "b_assign", "b_register",
                "cl_close", "a_backlog"}
ProtectedCpc == {"c_delay"}

\* C9 (timer exclusion): whenever one of the protected statements is the
\* one being executed, an LWIPMutex is alive and the timeout routine is not
\* running.
C9_TimerExclusion ==
    (pc \in ProtectedPc \/ cpc \in ProtectedCpc) => (lock > 0 /\ ~inTimer)

\* C9 witness: the accept callback, having interrupted accept() after its
\* locked block, is at its backlog-slot delay with the lock held.
C9_Witness == cpc = "c_delay" /\ pc = "a_next" /\ lock = 1

\* C10 (ephemeral port resolution): when a successful begin returns, and
\* between calls while the listener is open, port() is the listening
\* handle's local port, and it is not 0.
C10_Port ==
    /\ (pc = "b_unlock" /\ loc.path = "begin_ok") => _listen_pcb # NULL
    /\ (pc \in {"b_unlock", "idle"} /\ _listen_pcb # NULL) =>
          (port = ListenPcb.local_port /\ port # 0)

\* C10 witness: begin(0, backlog) is returning with success and port() is
\* the port the stack chose.
C10_Witness ==
    /\ pc = "b_unlock" /\ loc.path = "begin_ok" /\ loc.p = 0
    /\ port = TCP_LOCAL_PORT_RANGE_START

\* the statements of accept()
AcceptPc == {"a_empty", "a_getpcb", "a_lock", "a_backlog", "a_unlock",
             "a_next", "a_store", "a_ret"}

\* C11 (non-blocking accept): accept()/available() takes a context, the
\* head of the queue, exactly when hasClient() is true at the call, and
\* returns that context; on an empty queue it goes straight to its return
\* of the empty handle, releases no backlog slot and leaves the queue, the
\* listening handle and the port as they were; no statement of accept()
\* waits for anything.
C11_NonBlocking ==
    /\ [][(A_Call \/ Av_Call) =>
            /\ (hasClient => (pc' = "a_getpcb" /\ loc'.result = Head(Queue)))
            /\ (~hasClient => pc' = "a_empty")
            /\ UNCHANGED <<returned, stk, _unclaimed, ctx, _listen_pcb, _port>>]_vars
    /\ [][A_Empty =>
            (pc' = "idle"
             /\ UNCHANGED <<returned, stk, _unclaimed, ctx, _listen_pcb, _port>>)]_vars
    /\ [][returned' # returned =>
            (A_Return /\ returned' = Append(returned, loc.result))]_vars
    /\ []((pc \in AcceptPc /\ AppRun) => ENABLED AcceptStep)

\* C11 witness: accept() found the queue empty on an open listener, after
\* an earlier accept() had returned a connection whose peer had gone.
C11_Witness ==
    /\ pc = "a_empty"
    /\ _listen_pcb # NULL
    /\ \E i \in 1..Len(returned) : ctx[returned[i]].pcb = NULL

\* C12 (no-delay policy on hand-off): getNoDelay() is the process-wide
\* default until setNoDelay is called, is b after setNoDelay(b), and is
\* changed by nothing else; accept() sets the no-delay setting of the
\* context it returns to getNoDelay() and of no other context; no other
\* step, setNoDelay included, changes the setting of a context.
C12_NoDelay ==
    /\ getNoDelay = defaultNoDelay
    /\ [][\A b \in BOOLEAN : SetNoDelay(b) => (getNoDelay' = b /\ ctx' = ctx)]_vars
    /\ [][(\A b \in BOOLEAN : ~SetNoDelay(b)) => getNoDelay' = getNoDelay]_vars
    /\ [][A_Return =>
            /\ returned' = Append(returned, loc.result)
            /\ ctx'[loc.result].nodelay = getNoDelay]_vars
    /\ [][\A c \in 1..Len(ctx) :
            (ctx'[c].nodelay # ctx[c].nodelay) => (A_Return /\ c = loc.result)]_vars

\* C12 witness: with the default on, the first connection was handed over
\* with no-delay on, the second after setNoDelay(false) with no-delay off,
\* and setNoDelay(true) then left the queued third one untouched.
C12_Witness ==
    /\ pc = "idle"
    /\ defaultNoDelay
    /\ Len(returned) = 2
    /\ ctx[returned[1]].nodelay
    /\ ~ctx[returned[2]].nodelay
    /\ _noDelay = "_ndTrue"
    /\ Queue # <<>>
    /\ ~ctx[Head(Queue)].nodelay

\* the connections whose backlog slot is marked delayed and not released
Delayed == {p \in 1..Len(conn_pcbs) : conn_pcbs[p].backlogpend}

\* so far no queued peer has closed and no listener with accepted
\* connections was closed: only callbacks and accept() calls have acted on
\* the connections
OnlyCallbacksAndAccepts ==
    /\ \A c \in 1..Len(ctx) : ctx[c].pcb # NULL
    /\ \A p \in 1..Len(conn_pcbs) : conn_pcbs[p].listener # NULL

\* C13 (backlog-slot accounting, as claimed): accept() never runs its
\* release step on a null handle; a context that is still queued with a
\* live handle keeps its delayed slot; and between calls, in a build with
\* the backlog option and as long as only callbacks and accept() calls
\* have acted, the number of delayed slots is the length of the pending
\* queue.
C13_Claim ==
    /\ pc = "a_backlog" => ctx[_unclaimed].pcb # NULL
    /\ pc # "fault"
    /\ (TCP_LISTEN_BACKLOG /\ pc = "idle" /\ cpc = "idle"
          /\ OnlyCallbacksAndAccepts) =>
          /\ Cardinality(Delayed) = Len(Queue)
          /\ \A c \in SeqSet(Queue) : ctx[c].pcb \in Delayed
\* C14 (listener lifecycle): outside the lock a non-null listening handle
\* is a listening pcb with the accept callback and its owner registered,
\* status() is CLOSED exactly when the handle is null and the pcb's state
\* otherwise, and the stack holds no other pcb of the server (never more
\* than one, even inside the lock); the handle becomes non-null only at
\* the assignment of a begin that succeeds, becomes null only in close(),
\* is null when begin goes on after its close(), and is non-null at
\* begin's return exactly when that begin succeeded.
C14_Lifecycle ==
    /\ [](lock = 0 =>
            /\ (_listen_pcb # NULL => _listen_pcb \in Listening)
            /\ (status = CLOSED <=> _listen_pcb = NULL)
            /\ (_listen_pcb # NULL => status = tcp_pcbs[_listen_pcb].state)
            /\ DOMAIN tcp_pcbs = (IF _listen_pcb = NULL THEN {} ELSE {_listen_pcb}))
    /\ [](Cardinality(DOMAIN tcp_pcbs) <= 1)
    /\ [](pc \in {"b_zero", "b_port", "b_lock", "b_new", "b_bind", "b_listen"}
            => _listen_pcb = NULL)
    /\ [][(_listen_pcb = NULL /\ _listen_pcb' # NULL) =>
            (B_Assign /\ loc.outcome = "ok")]_vars
    /\ [][(_listen_pcb # NULL /\ _listen_pcb' # _listen_pcb) => Cl_Null]_vars
    /\ [][B_Unlock => ((loc.path = "begin_ok") <=> (_listen_pcb' # NULL))]_vars

\* C14 witness: the listener is open again after a close(): a connection
\* accepted by the earlier listening handle is still queued, detached from
\* it.
C14_Witness ==
    /\ pc = "idle" /\ cpc = "idle" /\ lock = 0
    /\ _listen_pcb # NULL
    /\ status = LISTEN
    /\ \E c \in SeqSet(Queue) :
          ctx[c].pcb # NULL /\ conn_pcbs[ctx[c].pcb].listener = NULL
\* the statements of the application that lie outside every lock scope
UnlockedPc == {"idle", "cl_test", "cl_lock", "b_zero", "b_port", "b_lock",
               "a_getpcb", "a_lock", "a_next", "a_store", "a_ret"}

\* C15 (lock discipline): the lock is never taken while it is held; it is
\* not held when begin, close, accept or the accept callback is entered
\* nor when one of them returns, on any path; outside the lock scopes of
\* the application only a running callback can hold it.
C15_LockDiscipline ==
    /\ [](lock \in {0, 1})
    /\ []((pc \in UnlockedPc /\ cpc = "idle") => lock = 0)
    /\ [](cpc = "c_lock" => lock = 0)
    /\ [][lock' > lock => lock = 0]_vars
    /\ [][((pc = "idle") # (pc' = "idle")) =>
             (IF pc = "idle" THEN lock = 0 ELSE lock' = 0)]_vars
    /\ [][((cpc = "idle") # (cpc' = "idle")) =>
             (IF cpc = "idle" THEN lock = 0 ELSE lock' = 0)]_vars
    /\ [][(pc = "cl_test" \/ pc = "cl_unlock") /\ pc' = "b_zero" => lock' = 0]_vars

\* C15 witness: begin is about to return on its listen-failure path with
\* its lock still held, on a server with a queued connection.
C15_Witness ==
    /\ pc = "b_unlock" /\ loc.path = "begin_listen" /\ lock = 1
    /\ Queue # <<>>
\* C16 (discard is inert): when the stack tears a queued connection down
\* and the discard callback runs, the pending queue, hasClient(), the
\* listener's members and status() stay as they were and only the
\* context's handle becomes null; accept() takes the head of the queue,
\* dead or not, and returns it with its handle as it was; contexts are
\* returned in their order of arrival.
C16_DiscardInert ==
    /\ [][\A c \in CtxIds : PeerClose(c) =>
            /\ Queue' = Queue
            /\ hasClient' /\ hasClient
            /\ UNCHANGED <<srv, returned>>
            /\ status' = status
            /\ ctx'[c].pcb = NULL]_vars
    /\ [][(A_Call /\ hasClient) => loc'.result = Head(Queue)]_vars
    /\ [][A_Return =>
            /\ returned' = Append(returned, loc.result)
            /\ ctx'[loc.result].pcb = ctx[loc.result].pcb]_vars
    /\ [](\A i, j \in 1..Len(returned) : i < j => returned[i] < returned[j])

\* C16 witness: the second connection was torn down while it was queued
\* behind the first, and accept() has returned it, second, with a null
\* handle.
C16_Witness ==
    /\ pc = "idle"
    /\ returned = <<1, 2>>
    /\ ctx[1].pcb # NULL
    /\ ctx[2].pcb = NULL

\* context c was created by a running callback that has not appended it yet
BeingAppended(c) == cpc \in {"c_lock", "c_delay", "c_append"} /\ loc.client = c

\* context c was popped by a running accept() that has not returned yet
BeingReturned(c) == pc = "a_ret" /\ loc.result = c

\* C17 (no lost connection under interleaving, as claimed): at every step,
\* whatever the interleaving of the accept callback with accept(), every
\* context the callback has appended is reachable from the queue head, is
\* being returned by the running accept(), or was returned.
C17_Claim ==
    \A c \in 1..Len(ctx) :
        BeingAppended(c) \/ Queued(c) \/ BeingReturned(c) \/ Handed(c)
\* C18 (eventual delivery, as claimed): in a run in which the application
\* is between two calls again and again, and so polls accept() infinitely
\* often, every context that is in the pending queue is eventually
\* returned by an accept() call.
C18_Claim ==
    \A c \in CtxIds : ([]<>(pc = "idle")) => [](Queued(c) => <>Handed(c))
\* connection pcb p was still unclaimed when its listener was closed: it is
\* detached from the listener with its backlog slot never released
ClosedWhileQueued(p) ==
    p # NULL /\ conn_pcbs[p].listener = NULL /\ conn_pcbs[p].backlogpend

\* C19 (close and begin leave the queue untouched): every statement of
\* close(), stop() and of the begin overloads, successful or not, leaves
\* the pending queue, every context and hasClient() as they were and
\* returns nothing; the contexts queued at that time are still claimed by
\* accept(), head first, on a closed listener as well.
C19_QueueKept ==
    /\ [][((pc = "idle" /\ pc' = "cl_test") \/ CloseStep \/ BeginStep) =>
            /\ Queue' = Queue
            /\ ctx' = ctx
            /\ hasClient' = hasClient
            /\ returned' = returned]_vars
    /\ [][(A_Call /\ Queue # <<>>) => loc'.result = Head(Queue)]_vars
    /\ [][A_Return =>
            (returned' = Append(returned, loc.result) /\ Queue' = Queue)]_vars

\* C19 witness: two connections that were queued when their listener was
\* closed have since been claimed, in their order of arrival, and the
\* listener is closed.
C19_Witness ==
    /\ pc = "idle"
    /\ status = CLOSED
    /\ returned = <<1, 2>>
    /\ TCP_LISTEN_BACKLOG
    /\ ClosedWhileQueued(ctx[1].pcb)
    /\ ClosedWhileQueued(ctx[2].pcb)

\* C20 (closed-state safety of queries, as claimed): while the listening
\* handle is null status() is CLOSED, and hasMaxPendingClients() does not
\* fault and answers false.
C20_Claim ==
    /\ _listen_pcb = NULL => status = CLOSED
    /\ pc # "h_fault"
    /\ (pc = "h_ret" /\ _listen_pcb = NULL) => loc.answer = FALSE
====
